---- MODULE Spec2Model ----
(***************************************************************************)
(* debug.py: a one-shot script that runs an interactive OAuth2 consent     *)
(* flow, prints the refresh token of the credential it obtains and saves   *)
(* the serialized credential to token.json.                                *)
(*                                                                         *)
(* The script is modelled statement by statement.  pc names the statement  *)
(* that runs next; "done" is normal exit, "failed" is termination by an    *)
(* unhandled exception.  The file system, the user and the authorization   *)
(* server are the environment.                                             *)
(***************************************************************************)
EXTENDS Naturals, Sequences, FiniteSets

VARIABLES
    pc,            \* the statement that runs next
    secretsFile,   \* state of credentials.json on disk: valid, missing, malformed
    argv,          \* command-line arguments of the process (never read)
    environ,       \* environment variables of the process (never read)
    flow,          \* the InstalledAppFlow object, or NoFlow
    consentEvent,  \* what ended the consent wait: none, granted, denied, abort
    creds,         \* the Credentials object, or NoCreds
    stdout,        \* the lines written to standard output
    tokenExists,   \* whether token.json exists on disk
    tokenContent,  \* the content of token.json on disk
    handles,       \* the number of open file objects on token.json
    openedPath,    \* the path given to open(), "" before the call
    buffer,        \* data accepted by write() and not yet on disk
    data,          \* the value of creds.to_json()
    pendingExc,    \* the exception raised inside the with body, or "none"
    failedAt,      \* the call whose exception ended the process, or "none"
    events,        \* history: calls and returns of the four effectful steps
    origExists,    \* history: tokenExists at process start
    origContent    \* history: tokenContent at process start

vars == <<pc, secretsFile, argv, environ, flow, consentEvent, creds, stdout,
          tokenExists, tokenContent, handles, openedPath, buffer, data,
          pendingExc, failedAt, events, origExists, origContent>>

---------------------------------------------------------------------------
(* Bounds of the model *)

MaxRefreshTokens == 2
MaxAccessTokens == 2

---------------------------------------------------------------------------
(* Values *)

\* Python's None
None == "<None>"

NoFlow == [client_secrets_file |-> "", scopes |-> <<>>]
NoCreds == [token |-> "", refresh_token |-> "", scopes |-> <<>>]

SCOPES == <<"https://www.googleapis.com/auth/calendar">>

RefreshTokenPool == <<"1//rt-a", "1//rt-b", "1//rt-c", "1//rt-d">>
AccessTokenPool == <<"ya29.a", "ya29.b", "ya29.c", "ya29.d">>

\* the refresh_token field of a returned credential: a string, or None when
\* the server issued no refresh token
RefreshTokenValues ==
    {RefreshTokenPool[i] : i \in 1..MaxRefreshTokens} \cup {None}

AccessTokenValues == {AccessTokenPool[i] : i \in 1..MaxAccessTokens}

\* the credentials run_local_server can return for flow f
CredentialObjects(f) ==
    {[token |-> t, refresh_token |-> r, scopes |-> f.scopes] :
        t \in AccessTokenValues, r \in RefreshTokenValues}

\* str(v), as print applies it to each argument
PyStr(v) == IF v = None THEN "None" ELSE v

\* the text print(a, b) writes: the arguments' str() joined by sep, then end
PrintLine(a, b) == <<PyStr(a), " ", PyStr(b), "\n">>

\* one "key": value member of the JSON object; to_json drops None members
JsonField(k, v) == IF v = None THEN <<>> ELSE <<k, v>>

\* creds.to_json(): the serialized credential, as a sequence of text chunks
to_json(c) ==
    <<"{">> \o JsonField("token", c.token)
            \o JsonField("refresh_token", c.refresh_token)
            \o JsonField("scopes", c.scopes[1])
            \o <<"}">>

IsPrefix(s, t) == Len(s) <= Len(t) /\ s = SubSeq(t, 1, Len(s))
IsProperPrefix(s, t) == Len(s) < Len(t) /\ s = SubSeq(t, 1, Len(s))

\* what token.json can hold before the script runs
OldContents ==
    {<<>>, <<"{", "stale", "}">>}
        \cup {to_json(c) :
                c \in CredentialObjects([client_secrets_file |-> "credentials.json",
                                         scopes |-> SCOPES])}

ArgvValues == {<<"debug.py">>, <<"debug.py", "--secrets", "other.json">>}
EnvironValues == {"", "other-token.json"}

Terminated == pc \in {"done", "failed"}

---------------------------------------------------------------------------
(* Initial state: the process has started, no statement has run *)

Init ==
    /\ pc = "from_client_secrets_file"
    /\ secretsFile \in {"valid", "missing", "malformed"}
    /\ argv \in ArgvValues
    /\ environ \in EnvironValues
    /\ flow = NoFlow
    /\ consentEvent = "none"
    /\ creds = NoCreds
    /\ stdout = <<>>
    /\ tokenExists \in BOOLEAN
    /\ tokenContent \in (IF tokenExists THEN OldContents ELSE {<<>>})
    /\ handles = 0
    /\ openedPath = ""
    /\ buffer = <<>>
    /\ data = <<>>
    /\ pendingExc = "none"
    /\ failedAt = "none"
    /\ events = <<>>
    /\ origExists = tokenExists
    /\ origContent = tokenContent

\* an exception leaves the module body: nothing catches it, the process ends
Raise(step) ==
    /\ pc' = "failed"
    /\ failedAt' = step


envVars == <<secretsFile, argv, environ, origExists, origContent>>
fileVars == <<tokenExists, tokenContent, handles, openedPath, buffer, data,
              pendingExc>>

---------------------------------------------------------------------------
(* The script, statement by statement *)

\* variant: the secrets path is taken from the command line when one is given
FromClientSecretsFile_ArgvOverride ==
    /\ pc = "from_client_secrets_file"
    /\ IF secretsFile = "valid"
       THEN /\ flow' = [client_secrets_file |->
                            IF Len(argv) >= 3 THEN argv[3] ELSE "credentials.json",
                        scopes |-> SCOPES]
            /\ events' = events \o <<"call:from_client_secrets_file",
                                     "ret:from_client_secrets_file">>
            /\ pc' = "run_local_server"
            /\ UNCHANGED failedAt
       ELSE /\ events' = Append(events, "call:from_client_secrets_file")
            /\ Raise("from_client_secrets_file")
            /\ UNCHANGED flow
    /\ UNCHANGED <<envVars, fileVars, consentEvent, creds, stdout>>

\* variant: the failure to read the secrets file is caught and the script
\* carries on with a default flow
FromClientSecretsFile_CatchAndContinue ==
    /\ pc = "from_client_secrets_file"
    /\ flow' = [client_secrets_file |-> "credentials.json", scopes |-> SCOPES]
    /\ pc' = "run_local_server"
    /\ IF secretsFile = "valid"
       THEN /\ events' = events \o <<"call:from_client_secrets_file",
                                     "ret:from_client_secrets_file">>
            /\ UNCHANGED failedAt
       ELSE /\ events' = Append(events, "call:from_client_secrets_file")
            /\ failedAt' = "from_client_secrets_file"
    /\ UNCHANGED <<envVars, fileVars, consentEvent, creds, stdout>>

\* lines 10-12: flow = InstalledAppFlow.from_client_secrets_file(
\*                  'credentials.json', SCOPES)
\* The library reads and parses the file; a missing or malformed file raises.
FromClientSecretsFile ==
    /\ pc = "from_client_secrets_file"
    /\ IF secretsFile = "valid"
       THEN /\ flow' = [client_secrets_file |-> "credentials.json",
                        scopes |-> SCOPES]
            /\ events' = events \o <<"call:from_client_secrets_file",
                                     "ret:from_client_secrets_file">>
            /\ pc' = "run_local_server"
            /\ UNCHANGED failedAt
       ELSE /\ events' = Append(events, "call:from_client_secrets_file")
            /\ Raise("from_client_secrets_file")
            /\ UNCHANGED flow
    /\ UNCHANGED <<envVars, fileVars, consentEvent, creds, stdout>>

\* line 13, first half: flow.run_local_server(port=0) binds a local listener
\* (which can fail), opens the browser and blocks waiting for the callback.
RunLocalServerStart ==
    /\ pc = "run_local_server"
    /\ events' = Append(events, "call:run_local_server")
    /\ \E bound \in BOOLEAN :
          IF bound
          THEN pc' = "wait_consent" /\ UNCHANGED failedAt
          ELSE Raise("run_local_server")
    /\ UNCHANGED <<envVars, fileVars, flow, consentEvent, creds, stdout>>

\* environment: the authorization server redirects the browser to the local
\* callback server, with the user's grant or denial
ConsentResponse ==
    /\ pc = "wait_consent"
    /\ consentEvent = "none"
    /\ consentEvent' \in {"granted", "denied"}
    /\ UNCHANGED <<pc, envVars, fileVars, flow, creds, stdout, failedAt, events>>

\* environment: the user interrupts the waiting process
UserAbort ==
    /\ pc = "wait_consent"
    /\ consentEvent = "none"
    /\ consentEvent' = "abort"
    /\ UNCHANGED <<pc, envVars, fileVars, flow, creds, stdout, failedAt, events>>

\* variant: a denied or interrupted consent is retried instead of raised
RunLocalServerReturn_Retry ==
    /\ pc = "wait_consent"
    /\ consentEvent # "none"
    /\ \/ /\ consentEvent = "granted"
          /\ \E c \in CredentialObjects(flow) : creds' = c
          /\ events' = Append(events, "ret:run_local_server")
          /\ pc' = "print"
          /\ UNCHANGED <<failedAt, consentEvent>>
       \/ /\ consentEvent = "granted"
          /\ Raise("run_local_server")
          /\ UNCHANGED <<creds, events, consentEvent>>
       \/ /\ consentEvent # "granted"
          /\ pc' = "run_local_server"
          /\ consentEvent' = "none"
          /\ UNCHANGED <<creds, events, failedAt>>
    /\ UNCHANGED <<envVars, fileVars, flow, stdout>>

\* variant: the wait gives up by itself (a timeout) when nothing has arrived
RunLocalServerReturn_Timeout ==
    /\ pc = "wait_consent"
    /\ \/ /\ consentEvent = "granted"
          /\ \E c \in CredentialObjects(flow) : creds' = c
          /\ events' = Append(events, "ret:run_local_server")
          /\ pc' = "print"
          /\ UNCHANGED failedAt
       \/ /\ Raise("run_local_server")
          /\ UNCHANGED <<creds, events>>
    /\ UNCHANGED <<envVars, fileVars, flow, consentEvent, stdout>>

\* line 13, second half: the blocking call ends.  On a grant the library
\* exchanges the code for a credential (which can fail) and the call returns
\* it; on a denial or an interrupt the call raises.
RunLocalServerReturn ==
    /\ pc = "wait_consent"
    /\ consentEvent # "none"
    /\ \/ /\ consentEvent = "granted"
          /\ \E c \in CredentialObjects(flow) : creds' = c
          /\ events' = Append(events, "ret:run_local_server")
          /\ pc' = "print"
          /\ UNCHANGED failedAt
       \/ /\ Raise("run_local_server")
          /\ UNCHANGED <<creds, events>>
    /\ UNCHANGED <<envVars, fileVars, flow, consentEvent, stdout>>

\* variant: the access token is printed instead of the refresh token
PrintRefreshToken_AccessToken ==
    /\ pc = "print"
    /\ stdout' = Append(stdout, PrintLine("Refresh Token:", creds.token))
    /\ events' = events \o <<"call:print", "ret:print">>
    /\ pc' = "open"
    /\ UNCHANGED <<envVars, fileVars, flow, consentEvent, creds, failedAt>>

\* variant: a credential without refresh token is rejected
PrintRefreshToken_RequireToken ==
    /\ pc = "print"
    /\ IF creds.refresh_token = None
       THEN /\ events' = Append(events, "call:print")
            /\ Raise("print")
            /\ UNCHANGED stdout
       ELSE /\ stdout' = Append(stdout,
                                PrintLine("Refresh Token:", creds.refresh_token))
            /\ events' = events \o <<"call:print", "ret:print">>
            /\ pc' = "open"
            /\ UNCHANGED failedAt
    /\ UNCHANGED <<envVars, fileVars, flow, consentEvent, creds>>

\* line 14: print('Refresh Token:', creds.refresh_token)
PrintRefreshToken ==
    /\ pc = "print"
    /\ stdout' = Append(stdout, PrintLine("Refresh Token:", creds.refresh_token))
    /\ events' = events \o <<"call:print", "ret:print">>
    /\ pc' = "open"
    /\ UNCHANGED <<envVars, fileVars, flow, consentEvent, creds, failedAt>>

\* variant: the file is opened for appending (mode 'a'), nothing is truncated
OpenTokenFile_Append ==
    /\ pc = "open"
    /\ events' = Append(events, "call:write_file")
    /\ openedPath' = "token.json"
    /\ \E opened \in BOOLEAN :
          IF opened
          THEN /\ tokenExists' = TRUE
               /\ handles' = handles + 1
               /\ pc' = "to_json"
               /\ UNCHANGED <<failedAt, tokenContent>>
          ELSE /\ Raise("open")
               /\ UNCHANGED <<tokenExists, tokenContent, handles>>
    /\ UNCHANGED <<envVars, flow, consentEvent, creds, stdout, buffer, data,
                   pendingExc>>

\* variant: the credential is saved only when no token.json exists yet
OpenTokenFile_IfNeeded ==
    /\ pc = "open"
    /\ IF tokenExists
       THEN /\ pc' = "done"
            /\ UNCHANGED <<events, openedPath, tokenExists, tokenContent,
                           handles, failedAt>>
       ELSE /\ events' = Append(events, "call:write_file")
            /\ openedPath' = "token.json"
            /\ \E opened \in BOOLEAN :
                  IF opened
                  THEN /\ tokenExists' = TRUE
                       /\ tokenContent' = <<>>
                       /\ handles' = handles + 1
                       /\ pc' = "to_json"
                       /\ UNCHANGED failedAt
                  ELSE /\ Raise("open")
                       /\ UNCHANGED <<tokenExists, tokenContent, handles>>
    /\ UNCHANGED <<envVars, flow, consentEvent, creds, stdout, buffer, data,
                   pendingExc>>

\* line 16: open('token.json', 'w') creates the file or truncates it to
\* length 0 and gives one file object; a failing open changes nothing on disk.
OpenTokenFile ==
    /\ pc = "open"
    /\ events' = Append(events, "call:write_file")
    /\ openedPath' = "token.json"
    /\ \E opened \in BOOLEAN :
          IF opened
          THEN /\ tokenExists' = TRUE
               /\ tokenContent' = <<>>
               /\ handles' = handles + 1
               /\ pc' = "to_json"
               /\ UNCHANGED failedAt
          ELSE /\ Raise("open")
               /\ UNCHANGED <<tokenExists, tokenContent, handles>>
    /\ UNCHANGED <<envVars, flow, consentEvent, creds, stdout, buffer, data,
                   pendingExc>>

\* line 17, the argument: creds.to_json(), evaluated inside the with body
CallToJson ==
    /\ pc = "to_json"
    /\ \E serialized \in BOOLEAN :
          IF serialized
          THEN data' = to_json(creds) /\ pc' = "write" /\ UNCHANGED pendingExc
          ELSE pendingExc' = "to_json" /\ pc' = "with_exit" /\ UNCHANGED data
    /\ UNCHANGED <<envVars, flow, consentEvent, creds, stdout, tokenExists,
                   tokenContent, handles, openedPath, buffer, failedAt, events>>

\* line 17, the call: token.write(data).  The buffered file object passes
\* the first k chunks to the disk and keeps the rest; a write error leaves
\* on disk what had reached it and the rest is lost.
TokenWrite ==
    /\ pc = "write"
    /\ \E k \in 0..Len(data) :
          /\ tokenContent' = tokenContent \o SubSeq(data, 1, k)
          /\ \/ /\ buffer' = SubSeq(data, k + 1, Len(data))
                /\ UNCHANGED pendingExc
             \/ /\ k < Len(data)
                /\ buffer' = <<>>
                /\ pendingExc' = "write"
    /\ pc' = "with_exit"
    /\ UNCHANGED <<envVars, flow, consentEvent, creds, stdout, tokenExists,
                   handles, openedPath, data, failedAt, events>>

\* variant: no scoped close; an exception of the body skips the close
WithExit_NoCloseOnError ==
    /\ pc = "with_exit"
    /\ buffer' = <<>>
    /\ IF pendingExc # "none"
       THEN /\ Raise(pendingExc)
            /\ UNCHANGED <<tokenContent, events, handles>>
       ELSE /\ handles' = handles - 1
            /\ \E k \in 0..Len(buffer) :
                  /\ tokenContent' = tokenContent \o SubSeq(buffer, 1, k)
                  /\ IF k = Len(buffer)
                     THEN /\ pc' = "done"
                          /\ events' = Append(events, "ret:write_file")
                          /\ UNCHANGED failedAt
                     ELSE /\ Raise("close")
                          /\ UNCHANGED events
    /\ UNCHANGED <<envVars, flow, consentEvent, creds, stdout, tokenExists,
                   openedPath, data, pendingExc>>

\* variant: an atomic save; on an exception the previous content is put back
WithExit_RestoreOnError ==
    /\ pc = "with_exit"
    /\ handles' = handles - 1
    /\ buffer' = <<>>
    /\ IF pendingExc # "none"
       THEN /\ Raise(pendingExc)
            /\ tokenExists' = origExists
            /\ tokenContent' = origContent
            /\ UNCHANGED events
       ELSE \E k \in 0..Len(buffer) :
               IF k = Len(buffer)
               THEN /\ tokenContent' = tokenContent \o buffer
                    /\ pc' = "done"
                    /\ events' = Append(events, "ret:write_file")
                    /\ UNCHANGED <<failedAt, tokenExists>>
               ELSE /\ Raise("close")
                    /\ tokenExists' = origExists
                    /\ tokenContent' = origContent
                    /\ UNCHANGED events
    /\ UNCHANGED <<envVars, flow, consentEvent, creds, stdout,
                   openedPath, data, pendingExc>>

\* lines 16-17, leaving the with statement: the file object is closed, which
\* flushes the buffer (the flush can fail part-way) and releases the handle
\* in every case; an exception of the body, or of the flush, then propagates.
WithExit ==
    /\ pc = "with_exit"
    /\ handles' = handles - 1
    /\ buffer' = <<>>
    /\ IF pendingExc # "none"
       THEN /\ Raise(pendingExc)
            /\ UNCHANGED <<tokenContent, events>>
       ELSE \E k \in 0..Len(buffer) :
               /\ tokenContent' = tokenContent \o SubSeq(buffer, 1, k)
               /\ IF k = Len(buffer)
                  THEN /\ pc' = "done"
                       /\ events' = Append(events, "ret:write_file")
                       /\ UNCHANGED failedAt
                  ELSE /\ Raise("close")
                       /\ UNCHANGED events
    /\ UNCHANGED <<envVars, flow, consentEvent, creds, stdout, tokenExists,
                   openedPath, data, pendingExc>>

\* the steps the interpreter takes
ScriptStep ==
    \/ FromClientSecretsFile
    \/ RunLocalServerStart
    \/ RunLocalServerReturn
    \/ PrintRefreshToken
    \/ OpenTokenFile
    \/ CallToJson
    \/ TokenWrite
    \/ WithExit

\* the steps of the user and the authorization server
EnvironmentStep ==
    \/ ConsentResponse
    \/ UserAbort

Next == ScriptStep \/ EnvironmentStep

Spec == Init /\ [][Next]_vars

\* the interpreter runs the next statement whenever one can run; nothing
\* obliges the user or the server to ever answer
LiveSpec == Spec /\ WF_vars(ScriptStep)

---------------------------------------------------------------------------
(* Properties *)

\* event e is in the history
Occurred(e) == \E i \in 1..Len(events) : events[i] = e

\* the calls and returns of the four effectful steps, in program order
FixedOrder ==
    <<"call:from_client_secrets_file", "ret:from_client_secrets_file",
      "call:run_local_server", "ret:run_local_server",
      "call:print", "ret:print",
      "call:write_file", "ret:write_file">>

\* C1: once run_local_server has returned a credential, standard output
\* holds nothing while the print statement is still to run and afterwards
\* exactly one line, the label 'Refresh Token:' followed by the credential's
\* refresh_token; a refresh token string is printed unchanged.  Nothing is
\* printed before a credential was returned.
C1_PrintsReturnedRefreshToken ==
    /\ Len(stdout) <= 1
    /\ ~Occurred("ret:run_local_server") => stdout = <<>>
    /\ Occurred("ret:run_local_server") =>
          \/ pc = "print" /\ stdout = <<>>
          \/ /\ pc # "print"
             /\ Len(stdout) = 1
             /\ Len(stdout[1]) = 4
             /\ stdout[1][1] = "Refresh Token:"
             /\ stdout[1][2] = " "
             /\ stdout[1][4] = "\n"
             /\ creds.refresh_token # None => stdout[1][3] = creds.refresh_token

C1_Witness ==
    /\ pc = "done"
    /\ creds.refresh_token = "1//rt-b"
    /\ stdout = <<<<"Refresh Token:", " ", "1//rt-b", "\n">>>>

\* C2: when the save step has run to completion, token.json exists and
\* holds exactly the serialized form of the credential whose refresh token
\* was printed, whatever the file held before.
C2_FileEqualsSerializedCredential ==
    pc = "done" =>
        /\ tokenExists
        /\ tokenContent = to_json(creds)
        /\ tokenContent = data
        /\ stdout = <<PrintLine("Refresh Token:", creds.refresh_token)>>

C2_Witness ==
    /\ pc = "done"
    /\ origExists
    /\ origContent = <<"{", "stale", "}">>
    /\ tokenContent # origContent

\* C3: the calls and returns of the four effectful steps always form a
\* prefix of the program order: each step at most once, none before the
\* earlier ones have returned; a normal exit has run all four.
C3_FixedOrder ==
    /\ IsPrefix(events, FixedOrder)
    /\ pc = "done" => events = FixedOrder

C3_Witness ==
    /\ pc = "done"
    /\ events = FixedOrder

\* C4: an exception is never caught or retried: the process is in the
\* failed state exactly when a call has raised, no step can follow, the
\* last event is the call of the raising step, and after a failure of the
\* flow construction or of the consent flow nothing was printed and
\* token.json was neither opened, created nor modified.
C4_FailureIsFinal ==
    /\ (failedAt # "none") <=> (pc = "failed")
    /\ pc = "failed" =>
          /\ ~ENABLED Next
          /\ events # <<>>
          /\ events[Len(events)] = FixedOrder[Len(events)]
          /\ events[Len(events)] \in
                {"call:from_client_secrets_file", "call:run_local_server",
                 "call:write_file"}
          /\ (failedAt \in {"from_client_secrets_file", "run_local_server"} =>
                events[Len(events)] \in
                   {"call:from_client_secrets_file", "call:run_local_server"})
          /\ (failedAt \in {"open", "to_json", "write", "close"} =>
                events[Len(events)] = "call:write_file")
    /\ failedAt \in {"from_client_secrets_file", "run_local_server"} =>
          /\ stdout = <<>>
          /\ openedPath = ""
          /\ handles = 0
          /\ tokenExists = origExists
          /\ tokenContent = origContent

C4_Witness ==
    /\ pc = "failed"
    /\ failedAt = "run_local_server"
    /\ consentEvent = "denied"
    /\ origExists
    /\ origContent # <<>>

\* C5: while the script waits for consent and neither a callback nor an
\* interrupt has arrived, no statement of the script can run; the script is
\* past the consent step only after such an event; once the event has
\* arrived the script terminates; and a run of the script either terminates
\* or stays in the consent wait forever.
C5_ConsentWait ==
    /\ [](pc = "wait_consent" /\ consentEvent = "none" => ~ENABLED ScriptStep)
    /\ [](pc \in {"print", "open", "to_json", "write", "with_exit", "done"}
            => consentEvent # "none")
    /\ (consentEvent # "none") ~> Terminated
    /\ (<>Terminated) \/ <>[](pc = "wait_consent" /\ consentEvent = "none")

C5_Witness ==
    /\ pc = "failed"
    /\ failedAt = "run_local_server"
    /\ consentEvent = "abort"

\* C6: at most one file object on token.json is open at any time, one is
\* open exactly inside the with statement, and none is open when the
\* process has ended, normally or by an exception.
C6_ScopedFileHandle ==
    /\ handles \in {0, 1}
    /\ (handles = 1) <=> (pc \in {"to_json", "write", "with_exit"})
    /\ Terminated => handles = 0

C6_Witness ==
    /\ pc = "failed"
    /\ failedAt = "write"
    /\ handles = 0

\* C7: whatever the command line and the environment hold, the flow is
\* built from 'credentials.json' and the one-element scope list holding the
\* calendar scope URI, and the only path ever opened is 'token.json'.
C7_FixedNames ==
    /\ flow \in {NoFlow,
                 [client_secrets_file |-> "credentials.json",
                  scopes |-> <<"https://www.googleapis.com/auth/calendar">>]}
    /\ Occurred("ret:from_client_secrets_file") =>
          /\ flow.client_secrets_file = "credentials.json"
          /\ Len(flow.scopes) = 1
    /\ creds # NoCreds => creds.scopes = flow.scopes
    /\ openedPath \in {"", "token.json"}
    /\ Occurred("call:write_file") => openedPath = "token.json"

C7_Witness ==
    /\ Len(argv) = 3
    /\ environ # ""
    /\ flow # NoFlow
    /\ openedPath = "token.json"

C9_TruncatedAtOpen ==
    /\ pc = "to_json" => tokenExists /\ tokenContent = <<>>
    /\ failedAt = "to_json" => tokenExists /\ tokenContent = <<>>
    /\ failedAt \in {"write", "close"} =>
          tokenExists /\ IsProperPrefix(tokenContent, to_json(creds))
    /\ failedAt \in {"from_client_secrets_file", "run_local_server", "open"} =>
          tokenExists = origExists /\ tokenContent = origContent

C9_Witness ==
    /\ pc = "failed"
    /\ failedAt = "to_json"
    /\ origExists
    /\ origContent # <<>>
    /\ tokenContent = <<>>

\* C10: a returned credential whose refresh_token is None is used like any
\* other: the print statement can run and prints the label with str(None),
\* no call raises because of it, and a normal exit has written the
\* credential's serialized form.
C10_NoRefreshTokenIsNotAnError ==
    (creds # NoCreds /\ creds.refresh_token = None) =>
        /\ pc = "print" => ENABLED PrintRefreshToken
        /\ pc # "print" => stdout = <<<<"Refresh Token:", " ", "None", "\n">>>>
        /\ failedAt \in {"none", "open", "to_json", "write", "close"}
        /\ pc = "done" =>
              tokenContent = <<"{", "token", creds.token,
                               "scopes", "https://www.googleapis.com/auth/calendar",
                               "}">>

C10_Witness ==
    /\ pc = "done"
    /\ creds # NoCreds
    /\ creds.refresh_token = None
    /\ tokenExists

====
